---- MODULE Spec2Model ----
(***************************************************************************)
(* gocql-gen: a schema-driven generator of Cassandra data-access code.     *)
(*                                                                         *)
(* The repository holds two programs.  The batch generator (the file with  *)
(* persist-config.json, here src/unnamed/part_000) renders one DAO and an  *)
(* optional DTO per table; the legacy single-table generator               *)
(* (src/gocql-gen.go) renders one DAO to standard output.  Both are        *)
(* modelled: `program` says which one runs.  The code the templates        *)
(* generate (Get, list, stream) is modelled as state machines of its own.  *)
(*                                                                         *)
(* Go strings are TLA+ strings: Len, \o and SubSeq act on them character   *)
(* by character, so every rendered fragment is the text Go produces.       *)
(***************************************************************************)
EXTENDS Integers, Sequences, FiniteSets, TLC

VARIABLES
    program,     \* "batch" (part_000) or "legacy" (gocql-gen.go)
    persist,     \* the decoded persistDef: number of tables, their generated names,
                 \* ModelGeneration, ModelImport
    pc,          \* position of main
    ti,          \* index of the table the loop over persist.Tables is at
    table_def,   \* the columns of the table being processed
    ci,          \* index of the column the loop over table_def.Columns is at
    model,       \* the _DAOModel being built for the table
    dao,         \* the fragments rendered for the current table's DAO
    dto,         \* the fragments rendered for the current table's DTO
    artifacts,   \* what there is of output, in the order written: files by path
                 \* (batch) or standard output (legacy)
    exit         \* "" while running, else the message of the log.Fatal that ended the run

VARIABLES
    capacity,    \* what dao.capacity() returns
    spc,         \* position of the goroutine stream() starts
    stream,      \* the entries buffered in the channel
    closed,      \* whether the channel has been closed
    defers,      \* the goroutine's deferred calls, the last registered first
    session,     \* the goroutine's session: "none", "open" or "closed"
    closes,      \* how many times session.Close() has run
    scanned,     \* how many rows iter.Scan has returned
    err,         \* the goroutine's err: "nil", or what failed ("session", "iter")
    pending,     \* the entry the goroutine is sending
    sent,        \* every entry the goroutine has sent, in order
    received,    \* every entry the consumer has received, in order
    drained      \* whether the consumer has seen the channel closed and empty

streamVars == <<spc, stream, closed, defers, session, closes, scanned, err, pending,
                sent, received, drained>>

VARIABLES
    gpc,         \* position of Get
    given,       \* whether the caller passed a session to Get
    matching,    \* how many rows the query of Get matches
    gsession,    \* the session Get uses: "none", "given", "own" or "closed"
    gclose,      \* the close flag dao.session returned
    results,     \* the slice list builds; 0 is a nil entry, i > 0 the i-th row
    listed,      \* what list returned: none yet, a slice, or an error
    ret          \* what Get returned: none yet, or [row, err]

getVars == <<gpc, given, matching, gsession, gclose, results, listed, ret>>

VARIABLES
    apc,         \* position of Add
    amodel,      \* the _DAOModel the DAO of this Add was rendered from
    resource,    \* the resource r passed to Add: the value of each column's field
    bi,          \* index of the serialize block Add is at
    todo,        \* what the range loop of the block has yet to visit
    locals,      \* the local variable each serialize block declares
    inserted,    \* whether the INSERT has been executed
    bound,       \* the values bound to the INSERT, one per column
    aret         \* what Add returned: none yet, or [r, err]

addVars == <<apc, amodel, resource, bi, todo, locals, inserted, bound, aret>>

genVars == <<program, persist, pc, ti, table_def, ci, model, dao, dto, artifacts, exit>>

vars == <<genVars, capacity, streamVars, getVars, addVars>>

\* What a step of one of the four machines leaves alone.
OnlyGen    == UNCHANGED <<capacity, streamVars, getVars, addVars>>
OnlyStream == UNCHANGED <<genVars, getVars, addVars>>
OnlyGet    == UNCHANGED <<genVars, capacity, streamVars, addVars>>
OnlyAdd    == UNCHANGED <<genVars, capacity, streamVars, getVars>>

-----------------------------------------------------------------------------
(* Bounds of the model *)

MaxTables == 2
MaxCols == 3
MaxTypeCols == 2
MaxCap == 2
MaxRows == 3
MaxElems == 3

-----------------------------------------------------------------------------
(* Strings *)

RECURSIVE Join(_, _)
\* strings.Join(elems, sep)
Join(elems, sep) ==
    IF Len(elems) = 0 THEN ""
    ELSE IF Len(elems) = 1 THEN elems[1]
    ELSE elems[1] \o sep \o Join(Tail(elems), sep)

\* whether sub occurs in s at position i (1-based)
HasAt(s, sub, i) ==
    /\ i >= 1
    /\ i + Len(sub) - 1 <= Len(s)
    /\ SubSeq(s, i, i + Len(sub) - 1) = sub

\* strings.Index(s, sub), 1-based; 0 when sub does not occur
Index(s, sub) ==
    LET hits == {i \in 1..(Len(s) + 1) : HasAt(s, sub, i)}
    IN  IF hits = {} THEN 0 ELSE CHOOSE i \in hits : \A j \in hits : i <= j

\* strings.Contains(s, sub)
Contains(s, sub) == Index(s, sub) # 0

\* strings.Replace(s, old, new, 1): the first occurrence only
ReplaceFirst(s, old, new) ==
    LET i == Index(s, old)
    IN  IF i = 0 THEN s
        ELSE SubSeq(s, 1, i - 1) \o new \o SubSeq(s, i + Len(old), Len(s))

RECURSIVE Split(_, _)
\* the pieces of s between the occurrences of sep (sep is not empty)
Split(s, sep) ==
    LET i == Index(s, sep)
    IN  IF i = 0 THEN <<s>>
        ELSE <<SubSeq(s, 1, i - 1)>> \o Split(SubSeq(s, i + Len(sep), Len(s)), sep)

UpperCase == "ABCDEFGHIJKLMNOPQRSTUVWXYZ"
LowerCase == "abcdefghijklmnopqrstuvwxyz"

\* unicode.ToLower on one character
ToLower(c) ==
    LET i == Index(UpperCase, c)
    IN  IF c = "" \/ i = 0 THEN c ELSE SubSeq(LowerCase, i, i)

RECURSIVE StringsToLower(_)
\* strings.ToLower(s)
StringsToLower(s) ==
    IF s = "" THEN "" ELSE ToLower(SubSeq(s, 1, 1)) \o StringsToLower(SubSeq(s, 2, Len(s)))

RECURSIVE CleanElems(_, _, _)
\* path.Clean, element by element: an empty element and "." are dropped, ".."
\* removes the element before it, is dropped at the root, and is kept at the
\* beginning of a path that is not rooted.
CleanElems(elems, rooted, out) ==
    IF elems = <<>> THEN out
    ELSE LET e == Head(elems)
         IN  CleanElems(Tail(elems), rooted,
                 IF e = "" \/ e = "." THEN out
                 ELSE IF e = ".."
                 THEN IF out # <<>> /\ out[Len(out)] # ".."
                      THEN SubSeq(out, 1, Len(out) - 1)
                      ELSE IF rooted THEN out ELSE Append(out, "..")
                 ELSE Append(out, e))

\* path.Clean(p): the shortest path naming what p names; "." for the empty one
PathClean(p) ==
    LET rooted  == HasAt(p, "/", 1)
        cleaned == (IF rooted THEN "/" ELSE "") \o Join(CleanElems(Split(p, "/"), rooted, <<>>), "/")
    IN  IF cleaned = "" THEN "." ELSE cleaned

\* path.Join(dir, file): the elements that are not empty, joined with "/" and
\* cleaned; "" when both are empty
PathJoin(dir, file) ==
    IF dir = "" /\ file = "" THEN ""
    ELSE IF dir = "" THEN PathClean(file)
    ELSE PathClean(dir \o "/" \o file)

-----------------------------------------------------------------------------
(* The type mapping of one column *)

\* COLLECTION_REGEX.FindStringSubmatch(s) for `list<(.*)>|set<(.*)>`: the leftmost
\* "list<" or "set<" that a ">" follows on the same line.  The group is greedy
\* but `.` does not match a newline, so it runs to the last ">" before the
\* first newline after the "<".  <<>> when nothing matches, else
\* <<whole match, group 1, group 2>>.
FindStringSubmatch(s) ==
    LET lineEnd(from) ==
            LET nls == {j \in from..Len(s) : SubSeq(s, j, j) = "\n"}
            IN  IF nls = {} THEN Len(s) + 1 ELSE CHOOSE j \in nls : \A k \in nls : j <= k
        gt(from) ==
            LET gts == {j \in from..(lineEnd(from) - 1) : SubSeq(s, j, j) = ">"}
            IN  IF gts = {} THEN 0 ELSE CHOOSE j \in gts : \A k \in gts : j >= k
        lists == {i \in 1..Len(s) : HasAt(s, "list<", i) /\ gt(i + 5) # 0}
        sets  == {i \in 1..Len(s) : HasAt(s, "set<", i) /\ gt(i + 4) # 0}
        all   == lists \cup sets
        at    == CHOOSE i \in all : \A j \in all : i <= j
    IN  IF all = {} THEN <<>>
        ELSE IF at \in lists
             THEN <<SubSeq(s, at, gt(at + 5)), SubSeq(s, at + 5, gt(at + 5) - 1), "">>
             ELSE <<SubSeq(s, at, gt(at + 4)), "", SubSeq(s, at + 4, gt(at + 4) - 1)>>

\* The inner switch of the default branch: the element type of list<T> / set<T>.
\* go and time are the GoType and whether IncludeTime is set; a type no case
\* names leaves GoType as it was, the empty string.
ElementType(t) ==
    CASE t = "text"                 -> [go |-> "[]string", time |-> FALSE]
      [] t \in {"uuid", "timeuuid"} -> [go |-> "[]*gocql.UUID", time |-> FALSE]
      [] t = "timestamp"            -> [go |-> "[]time.Time", time |-> TRUE]
      [] t = "int"                  -> [go |-> "[]int", time |-> FALSE]
      [] t = "double"               -> [go |-> "[]float64", time |-> FALSE]
      [] t = "blob"                 -> [go |-> "[][]byte", time |-> FALSE]
      [] OTHER                      -> [go |-> "", time |-> FALSE]

\* The default branch reading the first group only: set<T> is never looked at.
CollectionTypeListOnly(cql) ==
    LET match == FindStringSubmatch(cql)
    IN  IF Len(match) = 3
        THEN ElementType(match[2])
        ELSE [go |-> "", time |-> FALSE]

\* The default branch of the batch generator's switch on col.CqlType.
CollectionType(cql) ==
    LET match == FindStringSubmatch(cql)
    IN  IF Len(match) = 3
        THEN ElementType(IF match[2] = "" THEN match[3] ELSE match[2])
        ELSE [go |-> "", time |-> FALSE]

\* The batch generator's switch on col.CqlType: the param it appends to
\* model.Columns, and whether it sets model.IncludeTime / model.IncludeJson.
MapType(col) ==
    LET cql == col.CqlType
        p(go, ser)  == [Name |-> col.Name, GoType |-> go, CqlType |-> cql, SerializedType |-> ser]
        r(go, ser, time, json) == [column |-> p(go, ser), time |-> time, json |-> json]
    IN  CASE cql = "text"                 -> r("string", "", FALSE, FALSE)
          [] cql \in {"uuid", "timeuuid"} -> r("*gocql.UUID", "", FALSE, FALSE)
          [] cql = "int"                  -> r("int", "", FALSE, FALSE)
          [] cql = "double"               -> r("float64", "", FALSE, FALSE)
          [] cql = "timestamp"            -> r("*time.Time", "", TRUE, FALSE)
          [] cql = "list<blob>"           ->
                r("[][]byte", col.DeserializeFromBlob, FALSE, col.DeserializeFromBlob # "")
          [] cql = "map<text,blob>"       ->
                r("map[string][]byte", col.DeserializeFromBlob, FALSE, col.DeserializeFromBlob # "")
          [] OTHER                        ->
                r(CollectionType(cql).go, "", CollectionType(cql).time, FALSE)

\* The legacy generator's switch on col.CqlType; it has no import flags.
LegacyMapType(col) ==
    LET cql == col.CqlType
        p(go, ser)  == [Name |-> col.Name, GoType |-> go, CqlType |-> cql, SerializedType |-> ser]
        r(go, ser) == [column |-> p(go, ser), time |-> FALSE, json |-> FALSE]
    IN  CASE cql = "text"                 -> r("string", "")
          [] cql \in {"uuid", "timeuuid"} -> r("*gocql.UUID", "")
          [] cql = "list<blob>"           -> r("[][]byte", col.DeserializeFromBlob)
          [] cql = "map<string,blob>"     -> r("map[string][]byte", col.DeserializeFromBlob)
          [] OTHER                        -> r("UNKNOWN", "")

-----------------------------------------------------------------------------
(* The key structure of a table *)

\* The first switch on col.Key without the append of a clustering column to keys.
KeyListsNoCluster(m, col) ==
    CASE col.Key = "partition" ->
            [m EXCEPT !.partitioningKeys = Append(@, col.Name),
                      !.keys = Append(@, col.Name)]
      [] col.Key \in {"cluster", "cluster-asc", "cluster-desc"} ->
            [m EXCEPT !.clusteringKeys = Append(@, col.Name)]
      [] OTHER -> m

\* The first switch on col.Key: partitioningKeys, clusteringKeys and keys.
KeyLists(m, col) ==
    CASE col.Key = "partition" ->
            [m EXCEPT !.partitioningKeys = Append(@, col.Name),
                      !.keys = Append(@, col.Name)]
      [] col.Key \in {"cluster", "cluster-asc", "cluster-desc"} ->
            [m EXCEPT !.clusteringKeys = Append(@, col.Name),
                      !.keys = Append(@, col.Name)]
      [] OTHER -> m

\* The second switch on col.Key with plain cluster taken as ascending.
KeyOrderPlainAsc(m, col) ==
    CASE col.Key \in {"cluster", "cluster-asc"} ->
            [m EXCEPT !.clusteringOrder = Append(@, col.Name \o " ASC")]
      [] col.Key = "cluster-desc" ->
            [m EXCEPT !.clusteringOrder = Append(@, col.Name \o " DESC")]
      [] OTHER -> m

\* The second switch on col.Key: clusteringOrder.
KeyOrder(m, col) ==
    CASE col.Key = "cluster-asc" ->
            [m EXCEPT !.clusteringOrder = Append(@, col.Name \o " ASC")]
      [] col.Key = "cluster-desc" ->
            [m EXCEPT !.clusteringOrder = Append(@, col.Name \o " DESC")]
      [] OTHER -> m

\* The loop body without `model.IncludeTime = true`.
ProcessColumnNoTime(prog, m, col) ==
    LET k == KeyOrder(KeyLists(m, col), col)
        t == IF prog = "batch" THEN MapType(col) ELSE LegacyMapType(col)
    IN  [k EXCEPT !.IncludeJson = @ \/ t.json,
                  !.Columns = Append(@, t.column)]

\* One iteration of the loop over the table's columns.
ProcessColumn(prog, m, col) ==
    LET k == KeyOrder(KeyLists(m, col), col)
        t == IF prog = "batch" THEN MapType(col) ELSE LegacyMapType(col)
    IN  [k EXCEPT !.IncludeTime = @ \/ t.time,
                  !.IncludeJson = @ \/ t.json,
                  !.Columns = Append(@, t.column)]

\* The _DAOModel main builds before the column loop.
NewModel(modelImport) ==
    [IncludeTime |-> FALSE, IncludeJson |-> FALSE, ModelImport |-> modelImport,
     Columns |-> <<>>, partitioningKeys |-> <<>>, clusteringKeys |-> <<>>,
     clusteringOrder |-> <<>>, keys |-> <<>>]

-----------------------------------------------------------------------------
(* The methods of _DAOModel the templates call *)

\* A method's result: the text it returns, or the log.Fatal that ends the run.
Html(text) == [fatal |-> FALSE, html |-> text]
Fatal(msg) == [fatal |-> TRUE, msg |-> msg]

\* PartitioningKeys without the single-key case: one key is parenthesized too.
PartitioningKeysParens(m) ==
    IF Len(m.partitioningKeys) = 0 THEN Fatal("Partitioning keys were empty")
    ELSE Html("(" \o Join(m.partitioningKeys, ", ") \o ")")

\* PartitioningKeys without the check for an empty key list.
PartitioningKeysNoCheck(m) ==
    IF Len(m.partitioningKeys) = 1 THEN Html(m.partitioningKeys[1])
    ELSE Html("(" \o Join(m.partitioningKeys, ", ") \o ")")

PartitioningKeys(m) ==
    IF Len(m.partitioningKeys) = 0 THEN Fatal("Partitioning keys were empty")
    ELSE IF Len(m.partitioningKeys) = 1 THEN Html(m.partitioningKeys[1])
    ELSE Html("(" \o Join(m.partitioningKeys, ", ") \o ")")

ClusteringColumns(m) ==
    IF Len(m.clusteringKeys) = 0 THEN ""
    ELSE ", " \o Join(m.clusteringKeys, ", ")

ClusteringOrder(m) ==
    IF Len(m.clusteringOrder) = 0 THEN ""
    ELSE " WITH CLUSTERING ORDER BY (" \o Join(m.clusteringOrder, ", ") \o ")"

TableDefinition(m) ==
    Join([i \in 1..Len(m.Columns) |->
            "    " \o m.Columns[i].Name \o " " \o m.Columns[i].CqlType], ",\n")

GetScanParameters(m) ==
    Join([i \in 1..Len(m.Columns) |-> "&" \o m.Columns[i].Name], ", ")

InsertFields(m) ==
    Join([i \in 1..Len(m.Columns) |-> m.Columns[i].Name], ", ")

\* InsertValues with one placeholder per key column only.
InsertValuesKeys(m) ==
    Join([i \in 1..Len(m.keys) |-> "?"], ", ")

InsertValues(m) ==
    Join([i \in 1..Len(m.Columns) |-> "?"], ", ")

InsertResource(m) ==
    Join([i \in 1..Len(m.Columns) |->
            IF m.Columns[i].SerializedType = ""
            THEN "r." \o m.Columns[i].Name
            ELSE m.Columns[i].Name], ", ")

\* SerializeParameters: one block per serialized column, in column order.  A
\* block declares a local variable named as the column and fills it from the
\* resource's field, as a list or as a map.
SerializeParameters(m) ==
    LET serialized(c) == c.SerializedType # "" /\ c.CqlType \in {"list<blob>", "map<text,blob>"}
        kept          == SelectSeq(m.Columns, serialized)
    IN  [i \in 1..Len(kept) |->
            [Name |-> kept[i].Name,
             kind |-> IF kept[i].CqlType = "list<blob>" THEN "list" ELSE "map"]]

SelectSingleKeys(m) == Join(m.keys, ", ")

DeleteKeys(m) ==
    Join([i \in 1..Len(m.keys) |-> "r." \o m.keys[i]], ", ")

\* SelectSingle over the partition keys only, as SelectList is.
SelectSinglePartition(m) ==
    Join([i \in 1..Len(m.partitioningKeys) |-> m.partitioningKeys[i] \o "=?"], " AND ")

SelectSingle(m) ==
    Join([i \in 1..Len(m.keys) |-> m.keys[i] \o "=?"], " AND ")

SelectListKeys(m) == Join(m.partitioningKeys, ", ")

SelectList(m) ==
    Join([i \in 1..Len(m.partitioningKeys) |-> m.partitioningKeys[i] \o "=?"], " AND ")

BaseImports(m) ==
    Join(<<"\"fmt\"">>
           \o (IF m.IncludeTime THEN <<"\"time\"">> ELSE <<>>)
           \o (IF m.IncludeJson THEN <<"\"encoding/json\"">> ELSE <<>>), "\n")

BaseModelImports(m) == IF m.IncludeTime THEN "\"time\"" ELSE ""

\* The backquote that delimits a Go struct tag.  A TLA+ string cannot hold the
\* character U+0060, so it is written as its escape.
Backquote == "\\x60"

\* The body of ModelFields' loop: the DTO field declared for column c.  A
\* serialized column whose CqlType is neither blob collection leaves its entry
\* of fields empty.
ModelField(m, c) ==
    LET r        == SubSeq(c.Name, 1, 1)
        jsonName == (IF c.Name = "" THEN "\\uFFFD" ELSE ToLower(r)) \o SubSeq(c.Name, 2, Len(c.Name))
        tag      == " " \o Backquote \o "json:\"" \o jsonName \o "\"" \o Backquote
        t        == IF Contains(c.SerializedType, m.ModelImport \o ".")
                    THEN ReplaceFirst(c.SerializedType, m.ModelImport \o ".", "")
                    ELSE c.SerializedType
    IN  IF c.SerializedType = "" THEN c.Name \o " " \o c.GoType \o tag
        ELSE IF c.CqlType = "list<blob>" THEN c.Name \o " []" \o t \o tag
        ELSE IF c.CqlType = "map<text,blob>" THEN c.Name \o " map[string]" \o t \o tag
        ELSE ""

ModelFields(m) ==
    Join([i \in 1..Len(m.Columns) |-> ModelField(m, m.Columns[i])], "\n")

\* What executing _DAOTemplate of the batch generator against m puts into the
\* text, fragment by fragment; PartitioningKeys is known not to be fatal here.
DAOTemplate(m) ==
    [BaseImports |-> BaseImports(m),
     TableDefinition |-> TableDefinition(m),
     PartitioningKeys |-> PartitioningKeys(m).html,
     ClusteringColumns |-> ClusteringColumns(m),
     ClusteringOrder |-> ClusteringOrder(m),
     InsertFields |-> InsertFields(m),
     InsertValues |-> InsertValues(m),
     InsertResource |-> InsertResource(m),
     SelectSingleKeys |-> SelectSingleKeys(m),
     SelectSingle |-> SelectSingle(m),
     SelectListKeys |-> SelectListKeys(m),
     SelectList |-> SelectList(m),
     DeleteKeys |-> DeleteKeys(m),
     GetScanParameters |-> GetScanParameters(m)]

\* The same for the legacy generator's _DAOTemplate, which has no Delete and
\* imports "time" and "encoding/json" unconditionally.
LegacyDAOTemplate(m) ==
    [TableDefinition |-> TableDefinition(m),
     PartitioningKeys |-> PartitioningKeys(m).html,
     ClusteringColumns |-> ClusteringColumns(m),
     ClusteringOrder |-> ClusteringOrder(m),
     InsertFields |-> InsertFields(m),
     InsertValues |-> InsertValues(m),
     InsertResource |-> InsertResource(m),
     SelectSingleKeys |-> SelectSingleKeys(m),
     SelectSingle |-> SelectSingle(m),
     SelectListKeys |-> SelectListKeys(m),
     SelectList |-> SelectList(m),
     GetScanParameters |-> GetScanParameters(m)]

\* What executing _DTOTemplate against m puts into the text.
DTOTemplate(m) ==
    [BaseModelImports |-> BaseModelImports(m),
     ModelFields |-> ModelFields(m),
     Fields |-> [i \in 1..Len(m.Columns) |-> ModelField(m, m.Columns[i])]]

-----------------------------------------------------------------------------
(* The configurations the generators are run on *)

\* every sequence over S of length 0..n
SeqsUpTo(S, n) == UNION {[1..k -> S] : k \in 0..n}

KeyRoles == {"", "partition", "cluster", "cluster-asc", "cluster-desc"}

\* Columns that vary in name and key role: the tables of Spec.
KeyColumns ==
    {[Name |-> n, CqlType |-> (IF n = "Id" THEN "uuid" ELSE "timestamp"),
      Key |-> k, DeserializeFromBlob |-> ""] :
        n \in {"Id", "ts"}, k \in KeyRoles}

KeyTables == SeqsUpTo(KeyColumns, MaxCols)

\* Columns that vary in storage type and deserialize target: the tables of
\* SpecTypes.  One column has no key role, so that a table may lack a
\* partition key here too.
TypeColumns ==
    {[Name |-> "Val", CqlType |-> t, Key |-> "partition", DeserializeFromBlob |-> ""] :
        t \in {"text", "uuid", "timeuuid", "int", "double", "timestamp",
               "list<blob>", "map<text,blob>", "map<string,blob>", "blob",
               "list<text>", "set<timestamp>", "set<blob>", "list<float>",
               "list<uuid>", "list<timeuuid>", "list<timestamp>", "list<int>",
               "list<double>", "set<text>", "set<uuid>", "set<timeuuid>",
               "set<int>", "set<double>", "list<text>\n>"}}
    \cup
    {[Name |-> "Val", CqlType |-> t, Key |-> "partition", DeserializeFromBlob |-> d] :
        t \in {"list<blob>", "map<text,blob>"}, d \in {"Tag", "models.Tag"}}
    \cup
    {[Name |-> "Val", CqlType |-> t, Key |-> "partition", DeserializeFromBlob |-> "Tag"] :
        t \in {"text", "timestamp", "map<string,blob>", "set<blob>"}}
    \cup
    {[Name |-> "note", CqlType |-> "text", Key |-> "", DeserializeFromBlob |-> ""]}

TypeTables == SeqsUpTo(TypeColumns, MaxTypeCols)

\* Tables whose generated names differ: TableA, TableB, ...
DistinctNames(n) == [i \in 1..n |-> "Table" \o SubSeq(UpperCase, i, i)]

\* Generated names that are shared, differ only in case, differ, or are missing.
FileNames == {"User", "user", "Event", ""}

\* The directories configured for the DTOs: written clean, with a trailing
\* slash, relative to ".", the working directory itself, and not given.
Locations == {"models", "models/", "./Models", ".", ""}

\* The tables of SpecFiles: one that is generated and one without a partition key.
FileTables ==
    {<<[Name |-> "Id", CqlType |-> "uuid", Key |-> "partition", DeserializeFromBlob |-> ""]>>,
     <<[Name |-> "ts", CqlType |-> "timestamp", Key |-> "cluster", DeserializeFromBlob |-> ""]>>}

NoTable == <<>>
NoModel == NewModel("")
NoText  == [table |-> 0]

\* What the run has decoded when main starts.  persist.Tables[ti] is read into
\* table_def when the loop reaches it, so the tables are drawn there.
GenInit(names, imports, locations) ==
    /\ \/ /\ program = "batch"
          /\ \E gen \in names, generation \in BOOLEAN :
                persist \in [nTables : {Len(gen)}, GeneratedNames : {gen},
                             ModelGeneration : {generation}, ModelImport : imports,
                             Location : IF generation THEN locations ELSE {""}]
       \/ /\ program = "legacy"
          /\ persist = [nTables |-> 1, GeneratedNames |-> <<"">>,
                        ModelGeneration |-> FALSE, ModelImport |-> "", Location |-> ""]
    /\ pc = "main"
    /\ ti = 0
    /\ table_def = NoTable
    /\ ci = 0
    /\ model = NoModel
    /\ dao = NoText
    /\ dto = NoText
    /\ artifacts = <<>>
    /\ exit = ""

-----------------------------------------------------------------------------
(* main of the batch generator *)

\* log.Fatal: the process exits; files already written stay as they are.
Die(msg) ==
    /\ pc' = "exit"
    /\ exit' = msg

\* persist.ModelGeneration.Location: any string of the configuration
Location == persist.Location

\* The path the file of table t is created at: the DAO in the working
\* directory, the DTO under Location, both named after the table's
\* GeneratedName and lower-cased as a whole.
Path(t, kind) ==
    IF kind = "dao" THEN StringsToLower(persist.GeneratedNames[t] \o "-dao_gen.go")
    ELSE IF kind = "dto"
    THEN StringsToLower(PathJoin(Location, persist.GeneratedNames[t] \o "-dto_gen.go"))
    ELSE "/dev/stdout"

File(kind, complete) ==
    [table |-> ti, kind |-> kind, complete |-> complete, path |-> Path(ti, kind)]

\* os.Create(path) and the Write that follows: a file already at the path is
\* truncated, so what was there is gone and the file holds what is written now.
Create(files, file) ==
    Append(SelectSeq(files, LAMBDA f : f.path # file.path), file)

\* The loop body is through: table ti has been generated.
NextTable == pc' = "end" /\ ti' = ti

\* Open and decode persist-config.json, then check that it names a table.
Start ==
    /\ pc = "main"
    /\ program = "batch"
    /\ \E env \in {"ok", "unreadable"} :
          IF env = "unreadable" THEN Die("persist-config.json: open or decode failed") /\ ti' = ti
          ELSE IF persist.nTables = 0 THEN Die("At least one table must be defined") /\ ti' = ti
          ELSE pc' = "table" /\ ti' = 1 /\ exit' = exit
    /\ UNCHANGED <<program, persist, table_def, ci, model, dao, dto, artifacts>>
    /\ OnlyGen

\* The head of the loop body: the column check and the new _DAOModel.
BeginTable(Tables) ==
    /\ pc = "table"
    /\ \E cols \in Tables :
          /\ table_def' = cols
          /\ IF Len(cols) = 0
             THEN Die("Table had no columns defined") /\ UNCHANGED <<model, ci>>
             ELSE /\ model' = NewModel(persist.ModelImport)
                  /\ ci' = 1
                  /\ pc' = "columns"
                  /\ exit' = exit
    /\ UNCHANGED <<program, persist, ti, dao, dto, artifacts>>
    /\ OnlyGen

\* One iteration of the loop over table_def.Columns (both generators).
Column ==
    /\ pc = "columns"
    /\ ci <= Len(table_def)
    /\ model' = ProcessColumn(program, model, table_def[ci])
    /\ ci' = ci + 1
    /\ pc' = IF ci = Len(table_def) THEN "dao" ELSE "columns"
    /\ UNCHANGED <<program, persist, ti, table_def, dao, dto, artifacts, exit>>
    /\ OnlyGen

\* Whether format.Source accepts the DAO text as far as the columns decide it:
\* the var blocks of stream and list declare `Name GoType` per column, and a
\* declaration without a type does not parse.
FormatSource(m) == \A i \in 1..Len(m.Columns) : m.Columns[i].GoType # ""

\* Parse and execute _DAOTemplate, format the text, create the file, write it.
\* The template calls InjectBoilerPlate before PartitioningKeys; both may end
\* the run.  env is what the file system and the formatter do.
RenderDAO ==
    /\ pc = "dao"
    /\ program = "batch"
    /\ \E env \in {"ok", "boilerplate", "format", "create", "write"} :
          LET pk == PartitioningKeys(model)
          IN  IF env = "boilerplate"
              THEN Die("Could not parse boiler plate") /\ UNCHANGED <<ti, dao, artifacts>>
              ELSE IF pk.fatal
              THEN Die(pk.msg) /\ UNCHANGED <<ti, dao, artifacts>>
              ELSE IF env = "format" \/ ~FormatSource(model)
              THEN Die("Error formatting template") /\ UNCHANGED <<ti, dao, artifacts>>
              ELSE IF env = "create"
              THEN Die("Could not create dao_gen source file") /\ UNCHANGED <<ti, dao, artifacts>>
              ELSE IF env = "write"
              THEN /\ Die("Error writing template")
                   /\ artifacts' = Create(artifacts, File("dao", FALSE))
                   /\ UNCHANGED <<ti, dao>>
              ELSE /\ dao' = [table |-> ti] @@ DAOTemplate(model)
                   /\ artifacts' = Create(artifacts, File("dao", TRUE))
                   /\ exit' = exit
                   /\ IF persist.ModelGeneration
                      THEN pc' = "dto" /\ ti' = ti
                      ELSE NextTable
    /\ UNCHANGED <<program, persist, table_def, ci, model, dto>>
    /\ OnlyGen

\* The same for _DTOTemplate, only when ModelGeneration is configured.
RenderDTO ==
    /\ pc = "dto"
    /\ \E env \in {"ok", "format", "create", "write"} :
          IF env = "format"
          THEN Die("Error formatting dto template") /\ UNCHANGED <<ti, dto, artifacts>>
          ELSE IF env = "create"
          THEN Die("Could not create dto_gen source file") /\ UNCHANGED <<ti, dto, artifacts>>
          ELSE IF env = "write"
          THEN /\ Die("Error writing dto template")
               /\ artifacts' = Create(artifacts, File("dto", FALSE))
               /\ UNCHANGED <<ti, dto>>
          ELSE /\ dto' = [table |-> ti] @@ DTOTemplate(model)
               /\ artifacts' = Create(artifacts, File("dto", TRUE))
               /\ exit' = exit
               /\ NextTable
    /\ UNCHANGED <<program, persist, table_def, ci, model, dao>>
    /\ OnlyGen

\* The loop over persist.Tables moves on, or main returns.  The variables of
\* the loop body (table_def, model, the rendered texts) go out of scope.
EndTable ==
    /\ pc = "end"
    /\ IF ti < persist.nTables
       THEN pc' = "table" /\ ti' = ti + 1
       ELSE pc' = "done" /\ ti' = ti
    /\ table_def' = NoTable
    /\ ci' = 0
    /\ model' = NoModel
    /\ dao' = NoText
    /\ dto' = NoText
    /\ UNCHANGED <<program, persist, artifacts, exit>>
    /\ OnlyGen

-----------------------------------------------------------------------------
(* main of the legacy generator *)

\* Open and decode <model>.json, check it is not empty, build the _DAOModel.
LegacyStart(Tables) ==
    /\ pc = "main"
    /\ program = "legacy"
    /\ \E env \in {"ok", "unreadable"}, cols \in Tables :
          IF env = "unreadable"
          THEN Die("open failed") /\ UNCHANGED <<ti, table_def, model, ci>>
          ELSE /\ table_def' = cols
               /\ ti' = 1
               /\ IF Len(cols) = 0
                  THEN Die("The column definition was empty.") /\ UNCHANGED <<model, ci>>
                  ELSE /\ model' = NewModel("")
                       /\ ci' = 1
                       /\ pc' = "columns"
                       /\ exit' = exit
    /\ UNCHANGED <<program, persist, dao, dto, artifacts>>
    /\ OnlyGen

\* Execute _DAOTemplate straight onto standard output: the text before
\* {{.PartitioningKeys}} is already out when that method ends the run, and a
\* write that fails makes Execute return the error, which is fatal.  env is
\* whether standard output takes what is written.
LegacyRender ==
    /\ pc = "dao"
    /\ program = "legacy"
    /\ \E env \in {"ok", "write"} :
          LET pk == PartitioningKeys(model)
          IN  IF env = "write"
              THEN /\ Die("Error executing template")
                   /\ artifacts' = Append(artifacts, File("stdout", FALSE))
                   /\ dao' = dao
              ELSE IF pk.fatal
              THEN /\ Die(pk.msg)
                   /\ artifacts' = Append(artifacts, File("stdout", FALSE))
                   /\ dao' = dao
              ELSE /\ dao' = [table |-> ti] @@ LegacyDAOTemplate(model)
                   /\ artifacts' = Append(artifacts, File("stdout", TRUE))
                   /\ pc' = "done"
                   /\ exit' = exit
    /\ UNCHANGED <<program, persist, ti, table_def, ci, model, dto>>
    /\ OnlyGen

-----------------------------------------------------------------------------
(* The goroutine of the generated stream(), and its consumer *)

Nil == 0
RowEntry(i) == [DTO |-> i, ERR |-> "nil"]
ErrEntry(e) == [DTO |-> Nil, ERR |-> e]
NoEntry     == [DTO |-> Nil, ERR |-> "nil"]

StreamIdle ==
    /\ spc = "idle"
    /\ stream = <<>>
    /\ closed = FALSE
    /\ defers = <<>>
    /\ session = "none"
    /\ closes = 0
    /\ scanned = 0
    /\ err = "nil"
    /\ pending = NoEntry
    /\ sent = <<>>
    /\ received = <<>>
    /\ drained = FALSE

\* stream(): make the channel, start the goroutine, return the channel.  The
\* goroutine's first statement registers close(stream).
StreamCall ==
    /\ spc = "idle"
    /\ spc' = "create"
    /\ defers' = <<"close(stream)">>
    /\ UNCHANGED <<capacity, stream, closed, session, closes, scanned, err, pending,
                   sent, received, drained>>
    /\ OnlyStream

\* CreateSession with session.Close() deferred as if before close(stream), so
\* that it runs after it.
CreateSessionDeferLast ==
    /\ spc = "create"
    /\ \E ok \in BOOLEAN :
          IF ok
          THEN /\ session' = "open"
               /\ defers' = defers \o <<"session.Close()">>
               /\ spc' = "scan"
               /\ UNCHANGED <<err, pending>>
          ELSE /\ err' = "session"
               /\ pending' = ErrEntry("session")
               /\ spc' = "emit"
               /\ UNCHANGED <<session, defers>>
    /\ UNCHANGED <<capacity, stream, closed, closes, scanned, sent, received, drained>>
    /\ OnlyStream

\* dao.createSession(): on failure the error entry is to be sent; on success
\* session.Close() is deferred and the page size set.
CreateSession ==
    /\ spc = "create"
    /\ \E ok \in BOOLEAN :
          IF ok
          THEN /\ session' = "open"
               /\ defers' = <<"session.Close()">> \o defers
               /\ spc' = "scan"
               /\ UNCHANGED <<err, pending>>
          ELSE /\ err' = "session"
               /\ pending' = ErrEntry("session")
               /\ spc' = "emit"
               /\ UNCHANGED <<session, defers>>
    /\ UNCHANGED <<capacity, stream, closed, closes, scanned, sent, received, drained>>
    /\ OnlyStream

\* iter.Scan(...): a row, which becomes the entry to send, or the end of the
\* iteration, by exhaustion or by failure.
Scan ==
    /\ spc = "scan"
    /\ \E more \in BOOLEAN :
          IF more /\ scanned < MaxRows
          THEN /\ scanned' = scanned + 1
               /\ pending' = RowEntry(scanned + 1)
               /\ spc' = "emit"
          ELSE /\ spc' = "iterclose"
               /\ UNCHANGED <<scanned, pending>>
    /\ UNCHANGED <<capacity, stream, closed, defers, session, closes, err, sent,
                   received, drained>>
    /\ OnlyStream

\* Where the goroutine goes once `pending` is sent: back to the loop after a
\* row, to the end of the function after an error entry.
AfterEmit == IF pending.ERR = "nil" THEN "scan" ELSE "return"

\* A send that does not wait for room in the buffer.
EmitNoWait ==
    /\ spc = "emit"
    /\ capacity > 0
    /\ stream' = Append(stream, pending)
    /\ sent' = Append(sent, pending)
    /\ spc' = AfterEmit
    /\ pending' = NoEntry
    /\ UNCHANGED <<capacity, closed, defers, session, closes, scanned, err, received,
                   drained>>
    /\ OnlyStream

\* stream <- entry, on a channel with a buffer: it completes only while the
\* buffer has room.
Emit ==
    /\ spc = "emit"
    /\ Len(stream) < capacity
    /\ stream' = Append(stream, pending)
    /\ sent' = Append(sent, pending)
    /\ spc' = AfterEmit
    /\ pending' = NoEntry
    /\ UNCHANGED <<capacity, closed, defers, session, closes, scanned, err, received,
                   drained>>
    /\ OnlyStream

\* stream <- entry, on a channel without a buffer: it completes only together
\* with the consumer's receive.
EmitUnbuffered ==
    /\ spc = "emit"
    /\ capacity = 0
    /\ ~drained
    /\ sent' = Append(sent, pending)
    /\ received' = Append(received, pending)
    /\ spc' = AfterEmit
    /\ pending' = NoEntry
    /\ UNCHANGED <<capacity, stream, closed, defers, session, closes, scanned, err,
                   drained>>
    /\ OnlyStream

\* iter.Close() whose failure is only printed, not sent.
IterCloseSilent ==
    /\ spc = "iterclose"
    /\ \E failed \in BOOLEAN :
          /\ err' = IF failed THEN "iter" ELSE err
          /\ pending' = pending
          /\ spc' = "return"
    /\ UNCHANGED <<capacity, stream, closed, defers, session, closes, scanned,
                   sent, received, drained>>
    /\ OnlyStream

\* iter.Close(): on failure the error entry is to be sent.
IterClose ==
    /\ spc = "iterclose"
    /\ \E failed \in BOOLEAN :
          IF failed
          THEN err' = "iter" /\ pending' = ErrEntry("iter") /\ spc' = "emit"
          ELSE UNCHANGED <<err, pending>> /\ spc' = "return"
    /\ UNCHANGED <<capacity, stream, closed, defers, session, closes, scanned,
                   sent, received, drained>>
    /\ OnlyStream

\* The function returns: its deferred calls run, the last registered first.
RunDefer ==
    /\ spc = "return"
    /\ IF defers = <<>>
       THEN spc' = "exit" /\ UNCHANGED <<defers, session, closes, closed>>
       ELSE /\ defers' = Tail(defers)
            /\ spc' = spc
            /\ IF Head(defers) = "session.Close()"
               THEN session' = "closed" /\ closes' = closes + 1 /\ closed' = closed
               ELSE closed' = TRUE /\ UNCHANGED <<session, closes>>
    /\ UNCHANGED <<capacity, stream, scanned, err, pending, sent, received, drained>>
    /\ OnlyStream

\* The consumer receives the oldest buffered entry.
Receive ==
    /\ stream # <<>>
    /\ received' = Append(received, Head(stream))
    /\ stream' = Tail(stream)
    /\ UNCHANGED <<capacity, spc, closed, defers, session, closes, scanned, err,
                   pending, sent, drained>>
    /\ OnlyStream

\* The consumer's receive on the closed, empty channel: its range loop ends.
ReceiveClosed ==
    /\ closed
    /\ stream = <<>>
    /\ ~drained
    /\ drained' = TRUE
    /\ UNCHANGED <<capacity, spc, stream, closed, defers, session, closes, scanned,
                   err, pending, sent, received>>
    /\ OnlyStream

-----------------------------------------------------------------------------
(* The generated Get and the list it calls *)

NoList   == [res |-> <<>>, err |-> "none"]
NoReturn == [row |-> Nil, err |-> "none"]

GetIdle ==
    /\ gpc = "idle"
    /\ given = FALSE
    /\ matching = 0
    /\ gsession = "none"
    /\ gclose = FALSE
    /\ results = <<>>
    /\ listed = NoList
    /\ ret = NoReturn

\* dao.session(_session...): the caller's session, or a new one to be closed
\* when Get returns; Get returns the error when none can be created.
GetSession ==
    /\ gpc = "call"
    /\ IF given
       THEN gsession' = "given" /\ gclose' = FALSE /\ gpc' = "list" /\ ret' = ret
       ELSE \E ok \in BOOLEAN :
               IF ok
               THEN gsession' = "own" /\ gclose' = TRUE /\ gpc' = "list" /\ ret' = ret
               ELSE /\ ret' = [row |-> Nil, err |-> "session"]
                    /\ gpc' = "done"
                    /\ UNCHANGED <<gsession, gclose>>
    /\ UNCHANGED <<given, matching, results, listed>>
    /\ OnlyGet

\* list: results := make([]*T, dao.capacity()), a slice of that many nil entries.
ListMake(n) == [i \in 1..n |-> Nil]

\* The head of list: page size, query, iterator and the results slice.
ListStart ==
    /\ gpc = "list"
    /\ results' = ListMake(capacity)
    /\ gpc' = "scan"
    /\ UNCHANGED <<given, matching, gsession, gclose, listed, ret>>
    /\ OnlyGet

\* How many rows list has scanned.
Scanned == Len(results) - capacity

\* iter.Scan(...) in list: the next matching row is appended, or the loop ends,
\* at the last row or at a failure.
ListScan ==
    /\ gpc = "scan"
    /\ \E more \in BOOLEAN :
          IF more /\ Scanned < matching
          THEN results' = Append(results, Scanned + 1) /\ gpc' = gpc
          ELSE results' = results /\ gpc' = "close"
    /\ UNCHANGED <<given, matching, gsession, gclose, listed, ret>>
    /\ OnlyGet

\* iter.Close() in list: an error when the iteration failed, which it has when
\* it ended before the last matching row.
ListClose ==
    /\ gpc = "close"
    /\ \E failed \in BOOLEAN :
          /\ Scanned < matching => failed
          /\ listed' = IF failed THEN [res |-> <<>>, err |-> "iter"]
                              ELSE [res |-> results, err |-> "nil"]
    /\ gpc' = "return"
    /\ UNCHANGED <<given, matching, gsession, gclose, results, ret>>
    /\ OnlyGet

\* What Get makes of list's result.
GetResult(l) ==
    IF l.err # "nil" THEN [row |-> Nil, err |-> l.err]
    ELSE IF Len(l.res) # 1 THEN [row |-> Nil, err |-> "nil"]
    ELSE [row |-> l.res[1], err |-> "nil"]

\* Get returns, and its deferred session.Close() runs when the session is its own.
GetReturn ==
    /\ gpc = "return"
    /\ ret' = GetResult(listed)
    /\ gsession' = IF gclose THEN "closed" ELSE gsession
    /\ gpc' = "done"
    /\ UNCHANGED <<given, matching, gclose, results, listed>>
    /\ OnlyGet

-----------------------------------------------------------------------------
(* The generated Add *)

RECURSIVE ModelOf(_, _)
\* The loop over table_def.Columns run to its end: the model the templates see.
ModelOf(m, cols) ==
    IF cols = <<>> THEN m
    ELSE ModelOf(ProcessColumn("batch", m, Head(cols)), Tail(cols))

\* The values an element of a serialized field may have; json.Marshal fails
\* on the last.
Values == {[id |-> "1", marshals |-> TRUE], [id |-> "2", marshals |-> TRUE],
           [id |-> "3", marshals |-> FALSE]}

MapKeys == {"a", "b"}

\* json.Marshal(v): the encoding of v, or an error
Marshal(v) ==
    IF v.marshals THEN [value |-> "{\"id\":" \o v.id \o "}", err |-> "nil"]
    ELSE [value |-> "", err |-> "unsupported value"]

\* The columns of the tables Add is generated for; the column named Id is the
\* partition key every such table has.
AddColumn(name, cql, deser) ==
    [Name |-> name, CqlType |-> cql, Key |-> (IF name = "Id" THEN "partition" ELSE ""),
     DeserializeFromBlob |-> deser]

AddTables ==
    {<<AddColumn("Id", "text", ""), AddColumn("Tags", "list<blob>", "Tag")>>,
     <<AddColumn("Attrs", "map<text,blob>", "Tag"), AddColumn("Id", "text", "")>>,
     <<AddColumn("Id", "text", ""), AddColumn("Tags", "list<blob>", "Tag"),
       AddColumn("Attrs", "map<text,blob>", "Tag")>>,
     <<AddColumn("Attrs", "map<text,blob>", "Tag"), AddColumn("Raw", "list<blob>", ""),
       AddColumn("Id", "text", ""), AddColumn("Tags", "list<blob>", "Tag")>>}

\* The values the field of column c of the resource may have.
FieldValues(c) ==
    IF c.SerializedType = "" THEN {c.GoType}
    ELSE IF c.CqlType = "list<blob>" THEN SeqsUpTo(Values, MaxElems)
    ELSE UNION {[K -> Values] : K \in SUBSET MapKeys}

RECURSIVE Resources(_)
\* The resources of a model with these columns: one field value per column.
Resources(cols) ==
    IF cols = <<>> THEN {<<>>}
    ELSE {<<f>> \o rest : f \in FieldValues(Head(cols)), rest \in Resources(Tail(cols))}

\* the index of the column named name
ColumnNamed(m, name) == CHOOSE i \in 1..Len(m.Columns) : m.Columns[i].Name = name

NoLocal == "undeclared"
NoAddReturn == [r |-> "none", err |-> "none"]

AddIdle ==
    /\ apc = "idle"
    /\ amodel = NoModel
    /\ resource = <<>>
    /\ bi = 0
    /\ todo = {}
    /\ locals = <<>>
    /\ inserted = FALSE
    /\ bound = <<>>
    /\ aret = NoAddReturn

\* Add is entered: the serialize blocks come first.
AddCall ==
    /\ apc = "call"
    /\ apc' = "block"
    /\ bi' = 1
    /\ UNCHANGED <<amodel, resource, todo, locals, inserted, bound, aret>>
    /\ OnlyAdd

\* The head of a serialize block: `Name := make(...)`, then the range over
\* r.Name starts.
AddMake ==
    /\ apc = "block"
    /\ bi <= Len(SerializeParameters(amodel))
    /\ LET b     == SerializeParameters(amodel)[bi]
           field == resource[ColumnNamed(amodel, b.Name)]
       IN  /\ locals' = [locals EXCEPT ![bi] = <<>>]
           /\ todo' = DOMAIN field
    /\ apc' = "range"
    /\ UNCHANGED <<amodel, resource, bi, inserted, bound, aret>>
    /\ OnlyAdd

\* One iteration of the range loop that returns when json.Marshal fails.
AddMarshalReturn ==
    /\ apc = "range"
    /\ todo # {}
    /\ LET b     == SerializeParameters(amodel)[bi]
           field == resource[ColumnNamed(amodel, b.Name)]
       IN  \E k \in todo :
              /\ b.kind = "list" => \A j \in todo : k <= j
              /\ todo' = todo \ {k}
              /\ IF Marshal(field[k]).err = "nil"
                 THEN /\ locals' = [locals EXCEPT ![bi] =
                             IF b.kind = "list" THEN Append(@, Marshal(field[k]).value)
                             ELSE (k :> Marshal(field[k]).value) @@ @]
                      /\ UNCHANGED <<apc, aret>>
                 ELSE /\ apc' = "done"
                      /\ aret' = [r |-> "nil", err |-> Marshal(field[k]).err]
                      /\ locals' = locals
    /\ UNCHANGED <<amodel, resource, bi, inserted, bound>>
    /\ OnlyAdd

\* One iteration of the range loop of a block: the element is marshalled and
\* put into the local variable, or the failure is printed and nothing is put.
\* A slice is ranged over in index order, a map in any order.
AddMarshal ==
    /\ apc = "range"
    /\ todo # {}
    /\ LET b     == SerializeParameters(amodel)[bi]
           field == resource[ColumnNamed(amodel, b.Name)]
       IN  \E k \in todo :
              /\ b.kind = "list" => \A j \in todo : k <= j
              /\ todo' = todo \ {k}
              /\ locals' = IF Marshal(field[k]).err = "nil"
                           THEN [locals EXCEPT ![bi] =
                                   IF b.kind = "list" THEN Append(@, Marshal(field[k]).value)
                                   ELSE (k :> Marshal(field[k]).value) @@ @]
                           ELSE locals
    /\ UNCHANGED <<apc, amodel, resource, bi, inserted, bound, aret>>
    /\ OnlyAdd

\* The range loop of a block is through.
AddRangeEnd ==
    /\ apc = "range"
    /\ todo = {}
    /\ apc' = "block"
    /\ bi' = bi + 1
    /\ UNCHANGED <<amodel, resource, todo, locals, inserted, bound, aret>>
    /\ OnlyAdd

\* What an entry of InsertResource is bound to: the field r.Name, or the local
\* variable Name of a serialize block.
BoundValue(m, fields, vars_, entry) ==
    IF HasAt(entry, "r.", 1)
    THEN fields[ColumnNamed(m, SubSeq(entry, 3, Len(entry)))]
    ELSE LET blocks == SerializeParameters(m)
         IN  vars_[CHOOSE j \in 1..Len(blocks) : blocks[j].Name = entry]

\* session.Query(INSERT ..., InsertResource).Exec() and the return of Add.
AddExec ==
    /\ apc = "block"
    /\ bi > Len(SerializeParameters(amodel))
    /\ LET entries == Split(InsertResource(amodel), ", ")
       IN  bound' = [i \in 1..Len(entries) |-> BoundValue(amodel, resource, locals, entries[i])]
    /\ inserted' = TRUE
    /\ \E failed \in BOOLEAN :
          aret' = IF failed THEN [r |-> "nil", err |-> "exec"] ELSE [r |-> "r", err |-> "nil"]
    /\ apc' = "done"
    /\ UNCHANGED <<amodel, resource, bi, todo, locals>>
    /\ OnlyAdd

-----------------------------------------------------------------------------
(* Specifications *)

\* The generators on tables that vary in names and key roles.
Init ==
    /\ GenInit({DistinctNames(n) : n \in 0..MaxTables}, {"models"}, {"models"})
    /\ capacity = 0
    /\ StreamIdle
    /\ GetIdle
    /\ AddIdle

Next ==
    \/ Start
    \/ BeginTable(KeyTables)
    \/ Column
    \/ RenderDAO
    \/ RenderDTO
    \/ EndTable
    \/ LegacyStart(KeyTables)
    \/ LegacyRender

Spec == Init /\ [][Next]_vars

\* The generators on one table that varies in storage types and deserialize
\* targets.
InitTypes ==
    /\ GenInit({DistinctNames(n) : n \in 0..1}, {"", "models"}, {"models"})
    /\ capacity = 0
    /\ StreamIdle
    /\ GetIdle
    /\ AddIdle

NextTypes ==
    \/ Start
    \/ BeginTable(TypeTables)
    \/ Column
    \/ RenderDAO
    \/ RenderDTO
    \/ EndTable
    \/ LegacyStart(TypeTables)
    \/ LegacyRender

SpecTypes == InitTypes /\ [][NextTypes]_vars

\* The generators on tables that vary in their generated names.
InitFiles ==
    /\ GenInit(SeqsUpTo(FileNames, MaxTables), {"models"}, Locations)
    /\ capacity = 0
    /\ StreamIdle
    /\ GetIdle
    /\ AddIdle

NextFiles ==
    \/ Start
    \/ BeginTable(FileTables)
    \/ Column
    \/ RenderDAO
    \/ RenderDTO
    \/ EndTable
    \/ LegacyStart(FileTables)
    \/ LegacyRender

SpecFiles == InitFiles /\ [][NextFiles]_vars

GenIdle == GenInit({<<>>}, {""}, {""}) /\ program = "batch"

\* One call of the generated stream() and a consumer of its channel.
InitStream ==
    /\ GenIdle
    /\ capacity \in 0..MaxCap
    /\ StreamIdle
    /\ GetIdle
    /\ AddIdle

Producer == StreamCall \/ CreateSession \/ Scan \/ Emit \/ IterClose \/ RunDefer

Consumer == Receive \/ ReceiveClosed

NextStream == Producer \/ EmitUnbuffered \/ Consumer

SpecStream == InitStream /\ [][NextStream]_vars

\* The same where the goroutine is scheduled and the consumer keeps draining.
SpecStreamFair ==
    /\ SpecStream
    /\ WF_vars(Producer)
    /\ WF_vars(EmitUnbuffered \/ Consumer)

\* One call of the generated Get.
InitGet ==
    /\ GenIdle
    /\ capacity \in 0..MaxCap
    /\ StreamIdle
    /\ gpc = "call"
    /\ given \in BOOLEAN
    /\ matching \in 0..MaxRows
    /\ gsession = "none"
    /\ gclose = FALSE
    /\ results = <<>>
    /\ listed = NoList
    /\ ret = NoReturn
    /\ AddIdle

NextGet == GetSession \/ ListStart \/ ListScan \/ ListClose \/ GetReturn

SpecGet == InitGet /\ [][NextGet]_vars

\* One call of the generated Add, for each of the tables main writes a DAO for
\* (the template is through PartitioningKeys and format.Source takes the text)
\* and every resource.
InitAdd ==
    /\ GenIdle
    /\ capacity = 0
    /\ StreamIdle
    /\ GetIdle
    /\ apc = "call"
    /\ \E cols \in AddTables :
          /\ amodel = ModelOf(NewModel("models"), cols)
          /\ ~PartitioningKeys(amodel).fatal
          /\ FormatSource(amodel)
          /\ resource \in Resources(amodel.Columns)
          /\ locals = [j \in 1..Len(SerializeParameters(amodel)) |-> NoLocal]
    /\ bi = 0
    /\ todo = {}
    /\ inserted = FALSE
    /\ bound = <<>>
    /\ aret = NoAddReturn

NextAdd == AddCall \/ AddMake \/ AddMarshal \/ AddRangeEnd \/ AddExec

SpecAdd == InitAdd /\ [][NextAdd]_vars

-----------------------------------------------------------------------------
(* What the properties are stated with *)

ClusterRoles == {"cluster", "cluster-asc", "cluster-desc"}

\* the names of the columns of cols whose key role is one of roles, in column order
NamesWithRole(cols, roles) ==
    LET has(c) == c.Key \in roles
        kept   == SelectSeq(cols, has)
    IN  [i \in 1..Len(kept) |-> kept[i].Name]

UniqueNames(cols) == \A i, j \in 1..Len(cols) : cols[i].Name = cols[j].Name => i = j

\* how many entries of seq equal x
Count(seq, x) == Cardinality({i \in 1..Len(seq) : seq[i] = x})

\* the DAO of the table at hand has been rendered
Rendered == dao.table # 0

\* the columns the column loop has been through
ColumnsRead == SubSeq(table_def, 1, ci - 1)

-----------------------------------------------------------------------------
(* Properties of the key structure *)

\* C1: whenever a DAO has been rendered, its partition-key clause is the one
\* partition column's name, unparenthesized, when the table has exactly one
\* partition column, and "(" the names of all partition columns in column
\* order, separated by ", " ")" when it has two or more.
C1_PartitionKeyClause ==
    Rendered =>
        LET pks    == NamesWithRole(table_def, {"partition"})
            clause == dao.PartitioningKeys
        IN  /\ Len(pks) >= 1
            /\ Len(pks) = 1 => clause = pks[1]
            /\ Len(pks) >= 2 =>
                  /\ SubSeq(clause, 1, 1) = "("
                  /\ SubSeq(clause, Len(clause), Len(clause)) = ")"
                  /\ Split(SubSeq(clause, 2, Len(clause) - 1), ", ") = pks

\* C1 happens: a composite partition key around a clustering column.
C1_Witness ==
    /\ Rendered
    /\ Len(table_def) = 3
    /\ table_def[1].Key = "partition"
    /\ table_def[2].Key = "cluster-desc"
    /\ table_def[3].Key = "partition"
    /\ dao.PartitioningKeys = "(Id, ts)"

\* C2: whenever a DAO has been rendered for a table whose column names are
\* unique, the pieces of SelectSingle between " AND " are exactly one `name=?`
\* for every column with a key role and nothing for any other column, and the
\* i-th name of SelectSingleKeys is the name in the i-th piece.
C2_FullKeyEquality ==
    (Rendered /\ UniqueNames(table_def)) =>
        LET preds  == Split(dao.SelectSingle, " AND ")
            params == Split(dao.SelectSingleKeys, ", ")
        IN  /\ \A i \in 1..Len(table_def) :
                  Count(preds, table_def[i].Name \o "=?") =
                      IF table_def[i].Key \in {"partition"} \cup ClusterRoles THEN 1 ELSE 0
            /\ \A i \in 1..Len(preds) :
                  \E j \in 1..Len(table_def) : preds[i] = table_def[j].Name \o "=?"
            /\ Len(params) = Len(preds)
            /\ \A i \in 1..Len(preds) : preds[i] = params[i] \o "=?"

\* C2 happens: a clustering column before the partition column, and a column
\* that is no key.
C2_Witness ==
    /\ Rendered
    /\ program = "batch"
    /\ UniqueNames(table_def)
    /\ dao.SelectSingle = "ts=? AND Id=?"
    /\ dao.SelectSingleKeys = "ts, Id"
    /\ dao.DeleteKeys = "r.ts, r.Id"

\* C3 as stated: once the column loop is through, model.keys is the partition
\* keys followed by the clustering keys.
C3_KeysArePartitionThenCluster ==
    pc \in {"dao", "dto", "end", "done"} =>
        model.keys = model.partitioningKeys \o model.clusteringKeys

\* C3 as amended: model.keys is the names of the columns read so far that have
\* a key role, in column order; it is the partition keys followed by the
\* clustering keys whenever no clustering column precedes a partition column.
C3_KeysInColumnOrder ==
    pc \in {"columns", "dao", "dto", "end", "done"} =>
        /\ model.keys = NamesWithRole(ColumnsRead, {"partition"} \cup ClusterRoles)
        /\ model.partitioningKeys = NamesWithRole(ColumnsRead, {"partition"})
        /\ model.clusteringKeys = NamesWithRole(ColumnsRead, ClusterRoles)
        /\ (\A i, j \in 1..(ci - 1) :
                (table_def[i].Key \in ClusterRoles /\ table_def[j].Key = "partition") => j < i)
            => model.keys = model.partitioningKeys \o model.clusteringKeys

\* C3 happens: partition and clustering columns interleave.
C3_Witness ==
    /\ pc = "dao"
    /\ model.keys = <<"ts", "Id", "ts">>
    /\ model.partitioningKeys = <<"Id">>
    /\ model.clusteringKeys = <<"ts", "ts">>

\* the column loop is through the table at hand
TableRead == table_def # NoTable /\ ci = Len(table_def) + 1

\* the table at hand has no column with key role partition
NoPartitionColumn == NamesWithRole(table_def, {"partition"}) = <<>>

\* what has been written for table t or a later one
WrittenFrom(t) == {i \in 1..Len(artifacts) : artifacts[i].table >= t}

\* C4: in the batch generator, a table none of whose columns has key role
\* partition gets no further than the rendering of its DAO: the step taken
\* there ends the run and writes nothing, so no artifact of that table or of a
\* later one ever exists.
C4_NoPartitionKeyAborts ==
    /\ [](  (program = "batch" /\ TableRead /\ NoPartitionColumn)
            => (pc \in {"dao", "exit"} /\ WrittenFrom(ti) = {})  )
    /\ [][  (program = "batch" /\ pc = "dao" /\ NoPartitionColumn)
            => (pc' = "exit" /\ exit' # "" /\ artifacts' = artifacts)  ]_vars

\* C4 happens: the second table has a clustering column and no partition
\* column, and the run has ended in PartitioningKeys.
C4_Witness ==
    /\ program = "batch"
    /\ pc = "exit"
    /\ exit = "Partitioning keys were empty"
    /\ ti = 2
    /\ persist.ModelGeneration
    /\ Len(table_def) = 2
    /\ NoPartitionColumn
    /\ Len(artifacts) = 2

-----------------------------------------------------------------------------
(* Properties of the generated Get *)

\* C5 as stated: when Get has returned, it has returned an error if more than
\* one row matches, a row without an error only if exactly one row matches,
\* and no row without an error only if no row matches.
C5_GetErrorsOnManyRows ==
    gpc = "done" =>
        /\ matching > 1 => ret.err # "nil"
        /\ (ret.err = "nil" /\ ret.row # Nil) => matching = 1
        /\ (ret.err = "nil" /\ ret.row = Nil) => matching = 0

-----------------------------------------------------------------------------
(* Properties of the generated stream *)

C6_Safety ==
    /\ \A i \in 1..Len(sent) :
          /\ sent[i].ERR # "nil" => (i = Len(sent) /\ sent[i].DTO = Nil /\ sent[i].ERR = err)
          /\ sent[i].ERR = "nil" => sent[i].DTO # Nil
    /\ received \o stream = sent
    /\ closed => (spc \in {"return", "exit"} /\ pending = NoEntry)
    /\ spc = "exit" =>
          /\ closed
          /\ err # "nil" <=> (sent # <<>> /\ sent[Len(sent)].ERR # "nil")

\* C6: where the goroutine is scheduled and the consumer keeps draining, the
\* only entry with an error is the last one sent, it carries no row and every
\* entry before it carries a row and no error; the channel delivers the entries
\* in the order sent and nothing is sent once it is closed; when the goroutine
\* has exited the channel is closed, and an error entry has been sent exactly
\* when the session could not be created or the iteration failed; and in the
\* end the channel is closed and the consumer has received all that was sent.
C6_TerminalErrorThenClose ==
    /\ []C6_Safety
    /\ <>[](closed /\ drained /\ received = sent)

\* C6 happens: two rows, then the iteration fails, through a buffer of one.
C6_Witness ==
    /\ capacity = 1
    /\ err = "iter"
    /\ drained
    /\ received = <<RowEntry(1), RowEntry(2), ErrEntry("iter")>>

C7_Safety ==
    /\ closes <= 1
    /\ session = "closed" <=> closes = 1
    /\ closed => session # "open"
    /\ spc = "exit" => session # "open"

\* C7: the goroutine's session changes only in the goroutine's own steps: it is
\* opened by its call of createSession and closed by its deferred call; it is
\* closed at most once, and exactly once when it was opened and the goroutine
\* has exited; it is closed by the time the channel is closed; and where the
\* goroutine is scheduled and the consumer keeps draining, an open session is
\* eventually closed.
C7_SessionReleasedOnce ==
    /\ []C7_Safety
    /\ [][session' # session =>
             \/ session = "none" /\ spc = "create" /\ session' = "open"
             \/ session = "open" /\ spc = "return" /\ session' = "closed"]_vars
    /\ (session = "open") ~> (session = "closed")

\* C7 happens: the session was opened, the iteration failed, the session is
\* closed and so is the channel.
C7_Witness ==
    /\ closed
    /\ session = "closed"
    /\ closes = 1
    /\ err = "iter"
    /\ Len(sent) = 2

\* C8: the entries sent and not yet received are never more than the capacity,
\* and while they are as many as the capacity, an entry is sent only in a step
\* in which the consumer receives one.
C8_Backpressure ==
    /\ [](Len(stream) <= capacity /\ Len(sent) - Len(received) <= capacity)
    /\ [][(Len(sent) - Len(received) >= capacity /\ Len(sent') > Len(sent))
              => Len(received') > Len(received)]_vars

\* C8 happens: the buffer of two is full and the goroutine waits to send the
\* third row.
C8_Witness ==
    /\ capacity = 2
    /\ Len(stream) = 2
    /\ spc = "emit"
    /\ pending = RowEntry(3)
    /\ received = <<>>

-----------------------------------------------------------------------------
(* Properties of the type mapping *)

BlobCollections == {"list<blob>", "map<text,blob>"}

\* the type of the DTO field declared for column i: the second word of the field
FieldType(i) == Split(dto.Fields[i], " ")[2]

\* the deserialize target as the DTO's package names it: without the model
\* package's qualifier
TargetInModelPackage(target, modelImport) ==
    IF modelImport # "" /\ HasAt(target, modelImport \o ".", 1)
    THEN SubSeq(target, Len(modelImport) + 2, Len(target))
    ELSE target

\* C9 as stated: in the batch generator, a column read with a deserialize
\* target and storage type list<blob> or map<text,blob> has SerializedType
\* equal to the target and sets IncludeJson, and once the DTO is rendered its
\* field is []T or map[string]T for the target type T, not the raw bytes type;
\* a column of any other storage type has an empty SerializedType.
C9_SerializedColumns ==
    program = "batch" =>
        \A i \in 1..Len(model.Columns) :
            LET col == table_def[i]
                p   == model.Columns[i]
                T   == TargetInModelPackage(col.DeserializeFromBlob, persist.ModelImport)
            IN  /\ (col.CqlType \in BlobCollections /\ col.DeserializeFromBlob # "") =>
                      /\ p.SerializedType = col.DeserializeFromBlob
                      /\ model.IncludeJson
                      /\ dto.table # 0 =>
                            /\ FieldType(i) \notin {"[][]byte", "map[string][]byte"}
                            /\ col.CqlType = "list<blob>" => FieldType(i) = "[]" \o T
                            /\ col.CqlType = "map<text,blob>" => FieldType(i) = "map[string]" \o T
                /\ col.CqlType \notin BlobCollections => p.SerializedType = ""

\* What the batch generator does do for such a column: the element type of the
\* field is the target with the first "<ModelImport>." removed, wherever it is
\* and also when ModelImport is empty.
SerializedColumnsAsCoded ==
    program = "batch" =>
        \A i \in 1..Len(model.Columns) :
            LET col == table_def[i]
                p   == model.Columns[i]
                T   == ReplaceFirst(col.DeserializeFromBlob, persist.ModelImport \o ".", "")
            IN  /\ (col.CqlType \in BlobCollections /\ col.DeserializeFromBlob # "") =>
                      /\ p.SerializedType = col.DeserializeFromBlob
                      /\ model.IncludeJson
                      /\ dto.table # 0 =>
                            /\ FieldType(i) \notin {"[][]byte", "map[string][]byte"}
                            /\ col.CqlType = "list<blob>" => FieldType(i) = "[]" \o T
                            /\ col.CqlType = "map<text,blob>" => FieldType(i) = "map[string]" \o T
                /\ col.CqlType \notin BlobCollections => p.SerializedType = ""

\* the mapping table of the specification
MappingTable == {"text", "uuid", "timeuuid", "int", "double", "timestamp",
                 "list<blob>", "map<text,blob>"}

DocumentedType(cql) ==
    CASE cql = "text"           -> "string"
      [] cql = "uuid"           -> "*gocql.UUID"
      [] cql = "timeuuid"       -> "*gocql.UUID"
      [] cql = "int"            -> "int"
      [] cql = "double"         -> "float64"
      [] cql = "timestamp"      -> "*time.Time"
      [] cql = "list<blob>"     -> "[][]byte"
      [] cql = "map<text,blob>" -> "map[string][]byte"

\* the storage types that are, or hold, timestamps
TimestampTypes == {"timestamp", "list<timestamp>", "set<timestamp>"}

\* the columns read so far are mapped as documented, and the time flag is set
\* exactly when one of them is of a timestamp type
MappedAsDocumented ==
    /\ \A i \in 1..Len(model.Columns) :
          (table_def[i].CqlType \in MappingTable /\ table_def[i].DeserializeFromBlob = "") =>
              /\ model.Columns[i].GoType = DocumentedType(table_def[i].CqlType)
              /\ model.Columns[i].SerializedType = ""
    /\ model.IncludeTime <=>
          \E i \in 1..Len(model.Columns) : table_def[i].CqlType \in TimestampTypes

\* the types the legacy generator maps as documented
LegacyTable == {"text", "uuid", "timeuuid", "list<blob>"}

\* C10 as stated, of both generators.
C10_MappingTable == MappedAsDocumented

\* C10 as amended: the batch generator maps the table's types as documented and
\* sets the time flag exactly for timestamp types; the legacy generator maps
\* text, uuid, timeuuid and list<blob> as documented, maps int, double,
\* timestamp and map<text,blob> to UNKNOWN, and never sets a time flag.
C10_MappingTableBatch ==
    /\ program = "batch" => MappedAsDocumented
    /\ program = "legacy" =>
          /\ \A i \in 1..Len(model.Columns) :
                (table_def[i].CqlType \in MappingTable /\ table_def[i].DeserializeFromBlob = "") =>
                    /\ model.Columns[i].GoType =
                          IF table_def[i].CqlType \in LegacyTable
                          THEN DocumentedType(table_def[i].CqlType)
                          ELSE "UNKNOWN"
                    /\ model.Columns[i].SerializedType = ""
          /\ ~model.IncludeTime

\* C10 happens: the batch generator has mapped an int column and a timestamp
\* column.
C10_Witness ==
    /\ program = "batch"
    /\ pc = "dao"
    /\ Len(table_def) = 2
    /\ table_def[1].CqlType = "int" /\ table_def[1].DeserializeFromBlob = ""
    /\ table_def[2].CqlType = "timestamp" /\ table_def[2].DeserializeFromBlob = ""
    /\ model.Columns[1].GoType = "int"
    /\ model.Columns[2].GoType = "*time.Time"
    /\ model.IncludeTime

\* the scalar element types of the generic collection rule
KnownElements == {"text", "uuid", "timeuuid", "timestamp", "int", "double"}

\* list<T> and set<T> for the known element types T
KnownCollections == {k \o "<" \o t \o ">" : k \in {"list", "set"}, t \in KnownElements}

\* the T of list<T> or set<T>
ElementOf(cql) ==
    IF HasAt(cql, "list<", 1) THEN SubSeq(cql, 6, Len(cql) - 1)
    ELSE SubSeq(cql, 5, Len(cql) - 1)

\* the target type the scalar rule of the batch generator assigns to storage type t
ScalarRule(t) ==
    MapType([Name |-> "", CqlType |-> t, Key |-> "", DeserializeFromBlob |-> ""]).column.GoType

\* C11 as stated: in the batch generator, a column read with storage type
\* list<T> or set<T>, T a known scalar element type, has the target type
\* sequence of the scalar rule's target type for T.
C11_SequenceOfScalar ==
    program = "batch" =>
        \A i \in 1..Len(model.Columns) :
            table_def[i].CqlType \in KnownCollections =>
                model.Columns[i].GoType = "[]" \o ScalarRule(ElementOf(table_def[i].CqlType))

\* C11 as amended: the same for T among text, uuid, timeuuid, int and double;
\* for T = timestamp the target type is []time.Time, a sequence of the
\* timestamp type itself and not of the optional *time.Time of the scalar
\* rule, and the time flag is set.
C11_SequenceOfElement ==
    program = "batch" =>
        \A i \in 1..Len(model.Columns) :
            LET T == ElementOf(table_def[i].CqlType)
            IN  table_def[i].CqlType \in KnownCollections =>
                    IF T = "timestamp"
                    THEN /\ model.Columns[i].GoType = "[]time.Time"
                         /\ ScalarRule(T) = "*time.Time"
                         /\ model.IncludeTime
                    ELSE model.Columns[i].GoType = "[]" \o ScalarRule(T)

\* C11 happens: the batch generator has mapped a set<uuid> column and a
\* list<timestamp> column.
C11_Witness ==
    /\ program = "batch"
    /\ pc = "dao"
    /\ Len(table_def) = 2
    /\ table_def[1].CqlType = "set<uuid>"
    /\ table_def[2].CqlType = "list<timestamp>"
    /\ model.Columns[1].GoType = "[]*gocql.UUID"
    /\ model.Columns[2].GoType = "[]time.Time"

\* the storage types the scalar rules name
Scalars == {"text", "uuid", "timeuuid", "int", "double", "timestamp"}

\* a storage type that matches none of the mapping rules
Unrecognised(cql) == cql \notin Scalars \cup BlobCollections \cup KnownCollections

\* C12 as stated, of both generators: a column read with a storage type that
\* matches no mapping rule has the sentinel as its target type, and the run
\* never ends inside the loop that maps the columns.
C12_UnknownSentinel ==
    /\ \A i \in 1..Len(model.Columns) :
          Unrecognised(table_def[i].CqlType) => model.Columns[i].GoType = "UNKNOWN"
    /\ (pc = "exit" /\ Len(table_def) > 0) => ci = Len(table_def) + 1

\* What the generators do with such a type: neither ends the run while
\* mapping; the legacy generator sets UNKNOWN for every type outside its four
\* cases; the batch generator sets a sequence of bytes for set<blob>, maps a
\* type in which list<T> or set<T> is followed by more text as that collection,
\* and otherwise leaves the target type empty, and a table with an empty
\* target type ends the run when its DAO is formatted, nothing written.
UnknownTypesAsCoded ==
    /\ (pc = "exit" /\ Len(table_def) > 0) => ci = Len(table_def) + 1
    /\ \A i \in 1..Len(model.Columns) :
          LET cql == table_def[i].CqlType
              go  == model.Columns[i].GoType
          IN  /\ program = "legacy" =>
                    (go = "UNKNOWN" <=>
                        cql \notin {"text", "uuid", "timeuuid", "list<blob>", "map<string,blob>"})
              /\ (program = "batch" /\ Unrecognised(cql)) =>
                    /\ go = (IF cql = "set<blob>" THEN "[][]byte"
                             ELSE IF cql = "list<text>\n>" THEN "[]string"
                             ELSE "")
                    /\ go = "" => (pc \in {"columns", "dao", "exit"} /\ WrittenFrom(ti) = {})

-----------------------------------------------------------------------------
(* Properties of the clustering order *)

\* `name ASC` or `name DESC` for every cluster-asc or cluster-desc column of
\* cols, in column order
OrderEntries(cols) ==
    LET has(c) == c.Key \in {"cluster-asc", "cluster-desc"}
        kept   == SelectSeq(cols, has)
    IN  [i \in 1..Len(kept) |->
            kept[i].Name \o (IF kept[i].Key = "cluster-asc" THEN " ASC" ELSE " DESC")]

OrderPrefix == " WITH CLUSTERING ORDER BY ("

\* C13: whenever a DAO has been rendered, its clustering-order clause is empty
\* when the table has no cluster-asc or cluster-desc column (so for every table
\* without clustering keys), and otherwise is the WITH CLUSTERING ORDER BY
\* list of exactly those columns, in column order, each followed by ASC or
\* DESC as its role says; a plain cluster column has no entry.
C13_ClusteringOrderClause ==
    Rendered =>
        LET entries == OrderEntries(table_def)
            clause  == dao.ClusteringOrder
        IN  /\ NamesWithRole(table_def, ClusterRoles) = <<>> => clause = ""
            /\ entries = <<>> => clause = ""
            /\ entries # <<>> =>
                  /\ HasAt(clause, OrderPrefix, 1)
                  /\ SubSeq(clause, Len(clause), Len(clause)) = ")"
                  /\ Split(SubSeq(clause, Len(OrderPrefix) + 1, Len(clause) - 1), ", ") = entries

\* C13 happens: a plain cluster column between the partition column and a
\* descending one.
C13_Witness ==
    /\ Rendered
    /\ Len(table_def) = 3
    /\ table_def[1].Key = "partition"
    /\ table_def[2].Key = "cluster"
    /\ table_def[3].Key = "cluster-desc"
    /\ table_def[3].Name = "ts"
    /\ dao.ClusteringOrder = " WITH CLUSTERING ORDER BY (ts DESC)"

-----------------------------------------------------------------------------
(* Properties of the generated Add *)

\* the encodings of the elements of list that marshal, in the list's order
MarshalledOf(list) ==
    LET ok(v) == v.marshals
        kept  == SelectSeq(list, ok)
    IN  [j \in 1..Len(kept) |-> Marshal(kept[j]).value]

\* C14: Add has returned only if the INSERT was executed; and when it was, the
\* value bound for a serialized list column is the encodings of exactly the
\* elements of the field that marshal, in the field's order, and the value
\* bound for a serialized map column has exactly the keys whose value marshals,
\* each with its value's encoding; a column that is not serialized is bound to
\* the field itself.
C14_MarshalFailureSkipped ==
    /\ aret # NoAddReturn => inserted
    /\ apc = "done" => inserted
    /\ inserted =>
          /\ Len(bound) = Len(amodel.Columns)
          /\ \A i \in 1..Len(amodel.Columns) :
                LET c == amodel.Columns[i]
                    f == resource[i]
                IN  IF c.SerializedType = "" THEN bound[i] = f
                    ELSE IF c.CqlType = "list<blob>" THEN bound[i] = MarshalledOf(f)
                    ELSE /\ DOMAIN bound[i] = {k \in DOMAIN f : f[k].marshals}
                         /\ \A k \in DOMAIN bound[i] : bound[i][k] = Marshal(f[k]).value

\* C14 happens: the second of three tags and the value of attribute a do not
\* marshal, and the INSERT was executed with the other two tags, in order, and
\* with attribute b.
C14_Witness ==
    /\ apc = "done"
    /\ inserted
    /\ aret.err = "nil"
    /\ Len(amodel.Columns) = 3
    /\ amodel.Columns[1].Name = "Id"
    /\ Len(resource[2]) = 3
    /\ resource[2][1].id = "1" /\ resource[2][2].id = "3" /\ resource[2][3].id = "2"
    /\ DOMAIN resource[3] = {"a", "b"}
    /\ ~resource[3]["a"].marshals /\ resource[3]["b"].marshals
    /\ bound[2] = <<"{\"id\":1}", "{\"id\":2}">>
    /\ DOMAIN bound[3] = {"b"}

-----------------------------------------------------------------------------
(* Properties of the order of the tables *)

\* the file of kind kind that table t has when it has been generated
FileOf(t, kind) == [table |-> t, kind |-> kind, complete |-> TRUE, path |-> Path(t, kind)]

\* the files of a table that has been generated: its DAO, then its DTO when
\* ModelGeneration is configured
FilesOf(t) ==
    <<FileOf(t, "dao")>> \o (IF persist.ModelGeneration THEN <<FileOf(t, "dto")>> ELSE <<>>)

RECURSIVE FilesUpTo(_)
\* the files of tables 1..n, in configuration order
FilesUpTo(n) == IF n = 0 THEN <<>> ELSE FilesUpTo(n - 1) \o FilesOf(n)

\* how many tables the loop is through with
TablesDone == IF pc \in {"end", "done"} THEN ti ELSE IF ti = 0 THEN 0 ELSE ti - 1

\* what there is begins with the complete DAO (and DTO, when ModelGeneration
\* is configured, the DAO first) of each table the loop is through with, in
\* order, followed only by files of the table at hand, its DAO before its DTO
\* and the DTO only after the DAO is completely written
ArtifactsInOrder ==
    LET before == FilesUpTo(TablesDone)
        rest   == SubSeq(artifacts, Len(before) + 1, Len(artifacts))
    IN  /\ Len(artifacts) >= Len(before)
        /\ SubSeq(artifacts, 1, Len(before)) = before
        /\ \A i \in 1..Len(rest) : rest[i].table = ti
        /\ Len(rest) <= 2
        /\ Len(rest) >= 1 => rest[1].kind = "dao"
        /\ Len(rest) = 2 => (rest[1].complete /\ rest[2].kind = "dto")
        /\ pc = "dto" => rest = <<FileOf(ti, "dao")>>
        /\ dto.table # 0 =>
              /\ persist.ModelGeneration
              /\ SubSeq(artifacts, Len(artifacts) - 1, Len(artifacts)) = FilesOf(dto.table)

\* C15 as stated: in the batch generator, at every moment, so also when the
\* run has aborted at table N, the complete DAO (and DTO when ModelGeneration
\* is configured) of each of the tables 1..N-1 is in place, in configuration
\* order, followed only by files of table N, its DAO before its DTO; nothing
\* of a later table exists.
C15_TablesInOrder == program = "batch" => ArtifactsInOrder

\* no two tables are generated to the same paths
DistinctPaths ==
    \A i, j \in 1..persist.nTables :
        StringsToLower(persist.GeneratedNames[i]) = StringsToLower(persist.GeneratedNames[j])
            => i = j

\* What holds of every configuration: the table index only ever moves to the
\* next table; a file of a table the loop is through with is in place exactly
\* when no later table has been created at its path; and where the generated
\* names differ beyond case, what there is stays as it is, is only added to,
\* and is in the order C15 states.
TablesInOrderAsCoded ==
    /\ [](program = "batch" =>
            /\ DistinctPaths => ArtifactsInOrder
            /\ \A t \in 1..TablesDone :
               \A kind \in {"dao"} \cup (IF persist.ModelGeneration THEN {"dto"} ELSE {}) :
                  (\E i \in 1..Len(artifacts) : artifacts[i] = FileOf(t, kind))
                     <=> ~(\E i \in 1..Len(artifacts) :
                              artifacts[i].table > t /\ artifacts[i].path = Path(t, kind)))
    /\ [][program = "batch" =>
            /\ ti' \in {ti, ti + 1}
            /\ DistinctPaths =>
                  /\ Len(artifacts') >= Len(artifacts)
                  /\ SubSeq(artifacts', 1, Len(artifacts)) = artifacts]_vars

\* two tables with one generated name: the second table's DAO is where the
\* first table's was, and the run has aborted in the second table's DTO
OverwrittenAtAbort ==
    /\ program = "batch"
    /\ pc = "exit"
    /\ ti = 2
    /\ persist.GeneratedNames = <<"User", "user">>
    /\ persist.ModelGeneration
    /\ artifacts = <<FileOf(1, "dto"), FileOf(2, "dao")>>

-----------------------------------------------------------------------------
(* Properties of the column lists *)

\* whether s ends with suffix
EndsWith(s, suffix) == HasAt(s, suffix, Len(s) - Len(suffix) + 1)

\* C16: whenever a DAO has been rendered, the entries of InsertFields,
\* GetScanParameters, InsertValues and InsertResource between ", " are as many
\* as the table has columns, and the i-th of each is the name of the i-th
\* column, a reference to it, a placeholder, and the field r.name of the i-th
\* column or, when that column is serialized, the local variable of its name;
\* and whenever the DTO has been rendered, the lines of ModelFields are as
\* many, the i-th declaring the field of the i-th column's name.
C16_ListsAligned ==
    Rendered =>
        LET n      == Len(table_def)
            name(i) == table_def[i].Name
            fields == Split(dao.InsertFields, ", ")
            scans  == Split(dao.GetScanParameters, ", ")
            marks  == Split(dao.InsertValues, ", ")
            values == Split(dao.InsertResource, ", ")
            decls  == Split(dto.ModelFields, "\n")
        IN  /\ n >= 1
            /\ Len(fields) = n /\ Len(scans) = n /\ Len(marks) = n /\ Len(values) = n
            /\ \A i \in 1..n :
                  /\ fields[i] = name(i)
                  /\ scans[i] = "&" \o name(i)
                  /\ marks[i] = "?"
                  /\ values[i] = IF model.Columns[i].SerializedType = ""
                                 THEN "r." \o name(i) ELSE name(i)
            /\ dto.table # 0 =>
                  /\ Len(decls) = n
                  /\ \A i \in 1..n :
                        /\ HasAt(decls[i], name(i) \o " ", 1)
                        /\ EndsWith(decls[i], "json:\"" \o ToLower(SubSeq(name(i), 1, 1))
                                                  \o SubSeq(name(i), 2, Len(name(i)))
                                                  \o "\"" \o Backquote)

\* C16 happens: a serialized column before a plain one, DAO and DTO rendered.
C16_Witness ==
    /\ Rendered
    /\ dto.table # 0
    /\ Len(table_def) = 2
    /\ table_def[1].Name = "Val" /\ table_def[1].CqlType = "map<text,blob>"
    /\ table_def[1].DeserializeFromBlob = "Tag"
    /\ table_def[2].Name = "note"
    /\ dao.InsertFields = "Val, note"
    /\ dao.InsertResource = "Val, r.note"
    /\ dao.GetScanParameters = "&Val, &note"

-----------------------------------------------------------------------------
(* Properties of the generated list *)

\* list has returned without an error
Listed == gpc \in {"return", "done"} /\ listed.err = "nil"

\* C17 as stated: for every capacity, when list has returned without an error
\* its result is the matching rows, one entry each and none of them nil, in
\* scan order, and nothing else; and when Get has returned without an error
\* and exactly one row matches, it has returned that row.
C17_ListOneEntryPerRow ==
    /\ Listed => listed.res = [i \in 1..matching |-> i]
    /\ (gpc = "done" /\ ret.err = "nil" /\ matching = 1) => ret.row = 1

\* What list does return: as many nil entries as the capacity, then the
\* matching rows in scan order; so Get returns the one matching row exactly
\* when the capacity is zero.
ListAsCoded ==
    /\ Listed => listed.res = ListMake(capacity) \o [i \in 1..matching |-> i]
    /\ (gpc = "done" /\ ret.err = "nil" /\ matching = 1) =>
          ret.row = (IF capacity = 0 THEN 1 ELSE Nil)

=============================================================================
